---- MODULE Spec2Model ----
(***************************************************************************)
(* A model of AudioDataset (src/src/dataloader_mayo.py): the construction  *)
(* of the three transform chains from the audio configuration and the      *)
(* per-index sample production of __getitem__.                             *)
(*                                                                         *)
(* The stage classes themselves (UidToWaveform, ToMonophonic, Resample,    *)
(* Truncate, ToTensor, WaveMean, the augmentation classes, Wav2Fbank,      *)
(* FreqMask, TimeMask, Normalize, Noise) live in utilities/dataloader_utils*)
(* which is imported with a star import; their effect on a sample is       *)
(* modelled from the specification.  Both Compose objects are modelled as  *)
(* applying their stage list front to back to the sample.                  *)
(*                                                                         *)
(* Units: probabilities are percentages (100 is p = 1.0); sample rates are *)
(* samples per second, a waveform of length n yields n frames.             *)
(***************************************************************************)
EXTENDS Integers, Sequences, FiniteSets, TLC

VARIABLES args, backend, self, pc, idx, sample, pos, trace, draws, sigOut,
          ret, prev, calls, lenRet, w2, run, pure, loop

vars == <<args, backend, self, pc, idx, sample, pos, trace, draws, sigOut,
          ret, prev, calls, lenRet, w2, run, pure, loop>>

\* the state of the second worker, of the entry points of run.py, of the
\* functions applied on their own and of the functions of loops.py
other == <<w2, run, pure, loop>>

(***************************************************************************)
(* Bounds                                                                  *)
(***************************************************************************)
\* number of rows of the annotation table
NumRows == 2
\* longest waveform (in samples) the acquisition backend holds
MaxLen == 3

Max(a, b) == IF a >= b THEN a ELSE b
Min(a, b) == IF a <= b THEN a ELSE b

(***************************************************************************)
(* Inputs: the annotation table, the backend, the audio configuration      *)
(***************************************************************************)
\* annotations_df: row i has index (uid) i and two label columns; a missing
\* label is "NaN"
AnnotationRow(i) ==
    [uid |-> i,
     labels |-> [a |-> IF i % 2 = 1 THEN "1" ELSE "0",
                 b |-> IF i = 1 THEN "NaN" ELSE "1"]]

AnnotationsDf == [i \in 1..NumRows |-> AnnotationRow(i)]

LabelChoices == {<<"a">>, <<"b", "a">>}

\* what the acquisition backend holds for one uid: an audio file or nothing
FileChoices ==
    [found : {TRUE}, ch : {1, 2}, len : 0..MaxLen, sr : {2, 4},
     silent : {FALSE}]
    \cup [found : {TRUE}, ch : {1}, len : 1..MaxLen, sr : {2, 4},
          silent : {TRUE}]
    \cup {[found |-> FALSE, ch |-> 0, len |-> 0, sr |-> 0, silent |-> FALSE]}

BaseBackend ==
    [u \in 1..NumRows |->
        [found |-> TRUE, silent |-> FALSE, ch |-> 1 + (u % 2),
         len |-> Min(u, MaxLen),
         sr |-> IF u % 2 = 1 THEN 2 ELSE 4]]

\* the backends explored: the base backend with one uid's entry replaced
Backends ==
    {[BaseBackend EXCEPT ![u] = f] : u \in 1..NumRows, f \in FileChoices}

\* an evaluation style configuration: every stochastic stage off
EvalConf ==
    [absent |-> {"skip_norm"},
     resample_rate |-> 4, reduce |-> TRUE, clip_length |-> 1,
     tshift |-> 0, speed |-> 0, gauss_noise |-> 0, pshift |-> 0,
     pshiftn |-> 0, gain |-> 0, stretch |-> 0,
     num_mel_bins |-> 3, target_length |-> 2, freqm |-> 0, timem |-> 0,
     noise |-> FALSE, mean |-> 1, std |-> 2, skip_norm |-> FALSE]

\* a training style configuration
TrainConf ==
    [absent |-> {"skip_norm"},
     resample_rate |-> 0, reduce |-> FALSE, clip_length |-> 0,
     tshift |-> 100, speed |-> 0, gauss_noise |-> 0, pshift |-> 0,
     pshiftn |-> 0, gain |-> 50, stretch |-> 0,
     num_mel_bins |-> 3, target_length |-> 2, freqm |-> 1, timem |-> 0,
     noise |-> FALSE, mean |-> 1, std |-> 2, skip_norm |-> FALSE]

BaseConfs == {EvalConf, TrainConf}

Merge(b, g) == [k \in DOMAIN b |-> IF k \in DOMAIN g THEN g[k] ELSE b[k]]

SigGroup ==
    [resample_rate : {0, 2, 4}, reduce : BOOLEAN, clip_length : {0, 1}]

AugGroup ==
    [tshift : {0, 50, 100}, speed : {0, 100}, gauss_noise : {0, 100},
     pshift : {0, 100}, pshiftn : {1}, gain : {0, 50, 100},
     stretch : {0, 100}]

SpecGroup ==
    [freqm : {0, 1}, timem : {0, 1}, noise : BOOLEAN, skip_norm : BOOLEAN,
     absent : {{}, {"skip_norm"}, {"skip_norm", "mean", "std"}, {"mean"}},
     target_length : {2}]

KeyGroup ==
    [absent : {{"skip_norm"}, {"skip_norm", "mode"}, {"skip_norm", "dataset"},
               {"mode", "dataset"}, {"std"}}]

Confs ==
    UNION {{Merge(b, g) : g \in SigGroup} \cup {Merge(b, g) : g \in AugGroup}
           \cup {Merge(b, g) : g \in SpecGroup}
           \cup {Merge(b, g) : g \in KeyGroup} : b \in BaseConfs}

MkArgs(conf, labels, cdo, shift) ==
    [annotations_df |-> AnnotationsDf, target_labels |-> labels,
     audio_conf |-> conf, cdo |-> cdo, shift |-> shift]

\* a backend whose first file is silent
SilentBackend ==
    [BaseBackend EXCEPT ![1] = [found |-> TRUE, silent |-> TRUE, ch |-> 1,
                                len |-> 2, sr |-> 2]]

\* the constructor arguments and the backend contents the model explores
Inputs ==
    {<<MkArgs(c, <<"a">>, FALSE, FALSE), BaseBackend>> : c \in Confs}
    \cup {<<MkArgs(c, l, cdo, sh), BaseBackend>> :
            c \in BaseConfs, l \in LabelChoices, cdo \in BOOLEAN,
            sh \in BOOLEAN}
    \cup {<<MkArgs(c, <<"a">>, FALSE, FALSE), b>> :
            c \in BaseConfs, b \in Backends}
    \cup {<<MkArgs(Merge(EvalConf, g), <<"a">>, FALSE, FALSE),
            SilentBackend>> : g \in SigGroup}

(***************************************************************************)
(* audio_conf.get(key)                                                     *)
(***************************************************************************)
\* dict.get returns None for a key the dictionary does not hold
IsNone(conf, key) == key \in conf.absent

\* SkipNorm with normalization skipped unless skip_norm is given
SkipNormDefaultTrue(conf) ==
    IF IsNone(conf, "skip_norm") THEN TRUE ELSE conf.skip_norm

\* self.skip_norm = conf.get('skip_norm') if conf.get('skip_norm') else False
SkipNorm(conf) == IF IsNone(conf, "skip_norm") THEN FALSE ELSE conf.skip_norm

(***************************************************************************)
(* Construction: __init__, _getaudiotransform, _getspectransform           *)
(***************************************************************************)
\* one stage of a chain: the class and its constructor arguments
St(name, a, b) == [name |-> name, a |-> a, b |-> b]

NoObject == [constructed |-> FALSE]

\* the order in which each chain's stages are documented to run
SignalOrder ==
    <<"UidToWaveform", "ToMonophonic", "Resample", "Truncate", "ToTensor",
      "WaveMean">>

AugOrder ==
    <<"TimeShifting", "SpeedTuning", "AddGaussianNoise", "PitchShift",
      "Gain", "StretchAudio">>

SpecOrder == <<"Wav2Fbank", "FreqMask", "TimeMask", "Normalize", "Noise">>

\* AudioTransformList with the resampler appended before the channel sum
AudioTransformListResampleFirst(f) ==
    <<St("UidToWaveform", 0, 0)>>
    \o (IF f.resample_rate # 0
        THEN <<St("Resample", f.resample_rate, 0)>> ELSE <<>>)
    \o (IF f.reduce THEN <<St("ToMonophonic", 0, 0)>> ELSE <<>>)
    \o (IF f.clip_length # 0
        THEN <<St("Truncate", f.clip_length, 0)>> ELSE <<>>)
    \o <<St("ToTensor", 0, 0)>>
    \o <<St("WaveMean", 0, 0)>>

\* AudioTransformList with the truncation nested in the resampling branch
AudioTransformListNestedClip(f) ==
    <<St("UidToWaveform", 0, 0)>>
    \o (IF f.reduce THEN <<St("ToMonophonic", 0, 0)>> ELSE <<>>)
    \o (IF f.resample_rate # 0
        THEN <<St("Resample", f.resample_rate, 0)>>
             \o (IF f.clip_length # 0
                 THEN <<St("Truncate", f.clip_length, 0)>> ELSE <<>>)
        ELSE <<>>)
    \o <<St("ToTensor", 0, 0)>>
    \o <<St("WaveMean", 0, 0)>>

\* AudioTransformList without the resampler
AudioTransformListResampleDropped(f) ==
    <<St("UidToWaveform", 0, 0)>>
    \o (IF f.reduce THEN <<St("ToMonophonic", 0, 0)>> ELSE <<>>)
    \o (IF f.clip_length # 0
        THEN <<St("Truncate", f.clip_length, 0)>> ELSE <<>>)
    \o <<St("ToTensor", 0, 0)>>
    \o <<St("WaveMean", 0, 0)>>

\* AudioTransformList with the truncation appended whatever clip_length is
AudioTransformListAlwaysClip(f) ==
    <<St("UidToWaveform", 0, 0)>>
    \o (IF f.reduce THEN <<St("ToMonophonic", 0, 0)>> ELSE <<>>)
    \o (IF f.resample_rate # 0
        THEN <<St("Resample", f.resample_rate, 0)>> ELSE <<>>)
    \o <<St("Truncate", f.clip_length, 0)>>
    \o <<St("ToTensor", 0, 0)>>
    \o <<St("WaveMean", 0, 0)>>

\* AudioTransformList with the truncation appended before the resampler
AudioTransformListClipFirst(f) ==
    <<St("UidToWaveform", 0, 0)>>
    \o (IF f.reduce THEN <<St("ToMonophonic", 0, 0)>> ELSE <<>>)
    \o (IF f.clip_length # 0
        THEN <<St("Truncate", f.clip_length, 0)>> ELSE <<>>)
    \o (IF f.resample_rate # 0
        THEN <<St("Resample", f.resample_rate, 0)>> ELSE <<>>)
    \o <<St("ToTensor", 0, 0)>>
    \o <<St("WaveMean", 0, 0)>>

\* the standard transforms of _getaudiotransform, in the order appended
AudioTransformList(f) ==
    <<St("UidToWaveform", 0, 0)>>
    \o (IF f.reduce THEN <<St("ToMonophonic", 0, 0)>> ELSE <<>>)
    \o (IF f.resample_rate # 0
        THEN <<St("Resample", f.resample_rate, 0)>> ELSE <<>>)
    \o (IF f.clip_length # 0
        THEN <<St("Truncate", f.clip_length, 0)>> ELSE <<>>)
    \o <<St("ToTensor", 0, 0)>>
    \o <<St("WaveMean", 0, 0)>>

\* AlTransformList with the gain stage appended before the noise stage
AlTransformListGainEarly(f) ==
    (IF f.tshift # 0 THEN <<St("TimeShifting", f.tshift, 0)>> ELSE <<>>)
    \o (IF f.speed # 0 THEN <<St("SpeedTuning", f.speed, 0)>> ELSE <<>>)
    \o (IF f.gain # 0 THEN <<St("Gain", f.gain, 0)>> ELSE <<>>)
    \o (IF f.gauss # 0 THEN <<St("AddGaussianNoise", f.gauss, 0)>> ELSE <<>>)
    \o (IF f.pshift # 0
        THEN <<St("PitchShift", f.pshift, f.pshift_n)>> ELSE <<>>)
    \o (IF f.stretch # 0 THEN <<St("StretchAudio", f.stretch, 0)>> ELSE <<>>)

\* AlTransformList with the gain stage given the noise probability
AlTransformListWrongP(f) ==
    (IF f.tshift # 0 THEN <<St("TimeShifting", f.tshift, 0)>> ELSE <<>>)
    \o (IF f.speed # 0 THEN <<St("SpeedTuning", f.speed, 0)>> ELSE <<>>)
    \o (IF f.gauss # 0 THEN <<St("AddGaussianNoise", f.gauss, 0)>> ELSE <<>>)
    \o (IF f.pshift # 0
        THEN <<St("PitchShift", f.pshift, f.pshift_n)>> ELSE <<>>)
    \o (IF f.gain # 0 THEN <<St("Gain", f.gauss, 0)>> ELSE <<>>)
    \o (IF f.stretch # 0 THEN <<St("StretchAudio", f.stretch, 0)>> ELSE <<>>)

\* the augmentation list of _getaudiotransform, in the order appended; the
\* list stays [] when nothing is appended
AlTransformList(f) ==
    (IF f.tshift # 0 THEN <<St("TimeShifting", f.tshift, 0)>> ELSE <<>>)
    \o (IF f.speed # 0 THEN <<St("SpeedTuning", f.speed, 0)>> ELSE <<>>)
    \o (IF f.gauss # 0 THEN <<St("AddGaussianNoise", f.gauss, 0)>> ELSE <<>>)
    \o (IF f.pshift # 0
        THEN <<St("PitchShift", f.pshift, f.pshift_n)>> ELSE <<>>)
    \o (IF f.gain # 0 THEN <<St("Gain", f.gain, 0)>> ELSE <<>>)
    \o (IF f.stretch # 0 THEN <<St("StretchAudio", f.stretch, 0)>> ELSE <<>>)

\* building PitchShift reads self.pshiftn, an attribute __init__ never sets
\* (it sets self.pshift_n): AttributeError whenever pshift is not 0
AudioTransformError(f) == IF f.pshift # 0 THEN "AttributeError" ELSE "none"

\* Wav2FbankStage with the two size arguments exchanged
Wav2FbankStageSwapped(f) == St("Wav2Fbank", f.melbins, f.target_length)

\* Wav2Fbank(self.target_length, self.melbins, self.tf_co, self.tf_shift,
\* override_wave=False)
Wav2FbankStage(f) == St("Wav2Fbank", f.target_length, f.melbins)

\* SpecTransformList with the normalization appended before the masks
SpecTransformListNormFirst(f) ==
    <<Wav2FbankStage(f)>>
    \o (IF ~f.skip_norm
        THEN <<St("Normalize", f.norm_mean, f.norm_std)>> ELSE <<>>)
    \o (IF f.freqm # 0 THEN <<St("FreqMask", f.freqm, 0)>> ELSE <<>>)
    \o (IF f.timem # 0 THEN <<St("TimeMask", f.timem, 0)>> ELSE <<>>)
    \o (IF f.noise THEN <<St("Noise", 0, 0)>> ELSE <<>>)

\* SpecTransformList with the noise stage appended whatever noise is
SpecTransformListAlwaysNoise(f) ==
    <<Wav2FbankStage(f)>>
    \o (IF f.freqm # 0 THEN <<St("FreqMask", f.freqm, 0)>> ELSE <<>>)
    \o (IF f.timem # 0 THEN <<St("TimeMask", f.timem, 0)>> ELSE <<>>)
    \o (IF ~f.skip_norm
        THEN <<St("Normalize", f.norm_mean, f.norm_std)>> ELSE <<>>)
    \o <<St("Noise", 0, 0)>>

\* SpecTransformList with the mean and the std given in the other order
SpecTransformListSwappedStats(f) ==
    <<Wav2FbankStage(f)>>
    \o (IF f.freqm # 0 THEN <<St("FreqMask", f.freqm, 0)>> ELSE <<>>)
    \o (IF f.timem # 0 THEN <<St("TimeMask", f.timem, 0)>> ELSE <<>>)
    \o (IF ~f.skip_norm
        THEN <<St("Normalize", f.norm_std, f.norm_mean)>> ELSE <<>>)
    \o (IF f.noise THEN <<St("Noise", 0, 0)>> ELSE <<>>)

\* the spectrogram transforms of _getspectransform, in the order appended
SpecTransformList(f) ==
    <<Wav2FbankStage(f)>>
    \o (IF f.freqm # 0 THEN <<St("FreqMask", f.freqm, 0)>> ELSE <<>>)
    \o (IF f.timem # 0 THEN <<St("TimeMask", f.timem, 0)>> ELSE <<>>)
    \o (IF ~f.skip_norm
        THEN <<St("Normalize", f.norm_mean, f.norm_std)>> ELSE <<>>)
    \o (IF f.noise THEN <<St("Noise", 0, 0)>> ELSE <<>>)

\* the instance variables __init__ sets from its arguments (lines 59-120)
Fields(a) ==
    LET c == a.audio_conf IN
    [constructed |-> TRUE,
     annotations_df |-> a.annotations_df,
     target_labels |-> a.target_labels,
     audio_conf |-> c,
     resample_rate |-> c.resample_rate,
     reduce |-> c.reduce,
     clip_length |-> c.clip_length,
     tshift |-> c.tshift,
     speed |-> c.speed,
     gauss |-> c.gauss_noise,
     pshift |-> c.pshift,
     pshift_n |-> c.pshiftn,
     gain |-> c.gain,
     stretch |-> c.stretch,
     melbins |-> c.num_mel_bins,
     freqm |-> c.freqm,
     timem |-> c.timem,
     norm_mean |-> c.mean,
     norm_std |-> c.std,
     skip_norm |-> SkipNorm(c),
     noise |-> c.noise,
     target_length |-> c.target_length,
     label_num |-> Len(a.target_labels),
     has_tf_co |-> FALSE,
     has_tf_shift |-> FALSE]

\* InitError without the statement that prints the mean and the std
InitErrorNoNormCheck(a) ==
    LET c == a.audio_conf IN
    IF IsNone(c, "mode") THEN "TypeError"
    ELSE IF IsNone(c, "dataset") THEN "TypeError"
    ELSE IF a.cdo THEN "AttributeError"
    ELSE IF a.shift THEN "AttributeError"
    ELSE AudioTransformError(Fields(a))

\* the first exception __init__ raises, in statement order, or "none":
\*  line 68   '{:s}'.format(None) when the configuration has no 'mode'
\*  line 70   'now process ' + None when it has no 'dataset'
\*  line 102  '{:.3f}'.format(None) when normalization is on without mean/std
\*  line 113  torch.CoarseDropout does not exist
\*  line 118  torch.Affine does not exist
\*  line 122  _getaudiotransform
InitError(a) ==
    LET c == a.audio_conf IN
    IF IsNone(c, "mode") THEN "TypeError"
    ELSE IF IsNone(c, "dataset") THEN "TypeError"
    ELSE IF ~SkipNorm(c) /\ (IsNone(c, "mean") \/ IsNone(c, "std"))
         THEN "TypeError"
    ELSE IF a.cdo THEN "AttributeError"
    ELSE IF a.shift THEN "AttributeError"
    ELSE AudioTransformError(Fields(a))

\* the object __init__ leaves behind when it returns normally
NewObject(a) ==
    LET f == Fields(a) IN
    [k \in DOMAIN f \cup {"audio_transform", "al_transform", "spec_transform"}
       |-> IF k = "audio_transform" THEN AudioTransformList(f)
           ELSE IF k = "al_transform" THEN AlTransformList(f)
           ELSE IF k = "spec_transform" THEN SpecTransformList(f)
           ELSE f[k]]

(***************************************************************************)
(* Samples and the effect of one stage on a sample                         *)
(***************************************************************************)
NoWave == [ch |-> 0, len |-> 0, tensor |-> FALSE, centered |-> FALSE,
           silent |-> FALSE, mods |-> <<>>]

NoFbank == [rows |-> <<>>, bins |-> 0, fmask |-> 0, tmask |-> 0,
            norm |-> <<>>, noise |-> 0, ops |-> <<>>]

BlankSample ==
    [uid |-> 0, targets |-> <<>>, has_waveform |-> FALSE, waveform |-> NoWave,
     sample_rate |-> 0, has_fbank |-> FALSE, fbank |-> NoFbank]

Ok(s) == [err |-> "none", s |-> s]
Raised(e) == [err |-> e, s |-> BlankSample]

\* UidToWaveform: load the waveform of sample.uid from the backend; silent
\* tells that every sample of the file is zero
LoadOutcome(s, be) ==
    LET file == be[s.uid] IN
    IF ~file.found THEN Raised("NotFoundError")
    ELSE Ok([s EXCEPT !.has_waveform = TRUE,
                      !.waveform = [ch |-> file.ch, len |-> file.len,
                                    tensor |-> FALSE, centered |-> FALSE,
                                    silent |-> file.silent, mods |-> <<>>],
                      !.sample_rate = file.sr])

\* ToMonophonic, Resample, Truncate, ToTensor, WaveMean
WaveStageOutcome(st, s) ==
    LET w == s.waveform IN
    IF w.len = 0 THEN Raised("EmptyAudioError")
    ELSE IF st.name = "ToMonophonic"
         THEN Ok([s EXCEPT !.waveform.ch = 1])
    ELSE IF st.name = "Resample"
         THEN IF s.sample_rate = st.a THEN Ok(s)
              ELSE Ok([s EXCEPT !.waveform.len = (w.len * st.a) \div s.sample_rate,
                                !.sample_rate = st.a])
    ELSE IF st.name = "Truncate"
         THEN Ok([s EXCEPT !.waveform.len = Min(w.len, st.a * s.sample_rate)])
    ELSE IF st.name = "ToTensor"
         THEN Ok([s EXCEPT !.waveform.tensor = TRUE])
    ELSE Ok([s EXCEPT !.waveform.centered = TRUE])

SignalOutcome(st, s, be) ==
    IF st.name = "UidToWaveform" THEN LoadOutcome(s, be)
    ELSE WaveStageOutcome(st, s)

\* the outcomes of the coin an augmentation stage with probability p flips
FireChoices(p) ==
    IF p <= 0 THEN {FALSE} ELSE IF p >= 100 THEN {TRUE} ELSE BOOLEAN

\* an augmentation stage that fired: the waveform is altered; speed tuning
\* and stretching also change its duration
FiredWaves(st, w) ==
    LET lens == IF st.name \in {"SpeedTuning", "StretchAudio"}
                THEN {Max(1, w.len - 1), w.len + 1} ELSE {w.len}
    IN {[w EXCEPT !.len = n, !.mods = Append(w.mods, st.name)] : n \in lens}

AugOutcomes(st, s) ==
    UNION {IF fire
           THEN {[fire |-> TRUE, s |-> [s EXCEPT !.waveform = w]] :
                    w \in FiredWaves(st, s.waveform)}
           ELSE {[fire |-> FALSE, s |-> s]} : fire \in FireChoices(st.a)}

\* the override_wave argument _getspectransform passes to Wav2Fbank
Wav2FbankOverrideWave == FALSE

\* Wav2Fbank: one frame per sample, then the frame axis is cut or zero
\* padded at the end to target_length (st.a); st.b mel bins; the waveform
\* leaves the sample only when the stage overrides it
Conversion(st, s) ==
    [s EXCEPT !.has_waveform = ~Wav2FbankOverrideWave,
              !.has_fbank = TRUE,
              !.fbank = [rows |-> [i \in 1..st.a |->
                                     IF i <= s.waveform.len THEN "data"
                                     ELSE "zero"],
                         bins |-> st.b, fmask |-> 0, tmask |-> 0,
                         norm |-> <<>>, noise |-> 0, ops |-> <<>>]]

\* FreqMask, TimeMask, Normalize, Noise work on the feature in place; the
\* mask widths and the noise are random draws
SpecOutcomes(st, s) ==
    LET fb == [s.fbank EXCEPT !.ops = Append(@, st.name)] IN
    IF st.name = "Wav2Fbank" THEN {Conversion(st, s)}
    ELSE IF st.name = "FreqMask"
         THEN {[s EXCEPT !.fbank = [fb EXCEPT !.fmask = m]] : m \in 0..st.a}
    ELSE IF st.name = "TimeMask"
         THEN {[s EXCEPT !.fbank = [fb EXCEPT !.tmask = m]] : m \in 0..st.a}
    ELSE IF st.name = "Normalize"
         THEN {[s EXCEPT !.fbank = [fb EXCEPT !.norm = <<st.a, st.b>>]]}
    ELSE {[s EXCEPT !.fbank = [fb EXCEPT !.noise = n]] : n \in {1, 2}}

Shape(fb) == <<Len(fb.rows), fb.bins>>

(***************************************************************************)
(* __getitem__                                                             *)
(***************************************************************************)
NoCall == [idx |-> 0, err |-> "nocall", sample |-> BlankSample,
           draws |-> <<>>]

\* RunsAugmentation without the emptiness test
RunsAugmentationAlways(al) == TRUE

\* if self.al_transform != []
RunsAugmentation(al) == al # <<>>

\* NextPhase with the augmentation call placed after the spectrogram chain
NextPhaseAugLast(phase, al) ==
    IF phase = "audio" THEN "spec"
    ELSE IF phase = "spec"
         THEN (IF RunsAugmentation(al) THEN "aug" ELSE "return")
    ELSE "return"

\* lines 252-258: audio_transform, then al_transform under its guard, then
\* spec_transform, then return
NextPhase(phase, al) ==
    IF phase = "audio" THEN (IF RunsAugmentation(al) THEN "aug" ELSE "spec")
    ELSE IF phase = "aug" THEN "spec"
    ELSE "return"

\* FirstSample with the targets taken in the column order of the table
FirstSampleTableOrder(obj, i) ==
    LET picked == {obj.target_labels[k] : k \in 1..Len(obj.target_labels)}
        cols == SelectSeq(<<"a", "b">>, LAMBDA c : c \in picked)
    IN [BlankSample EXCEPT
          !.uid = obj.annotations_df[i].uid,
          !.targets = [k \in 1..Len(cols) |->
                         obj.annotations_df[i].labels[cols[k]]]]

\* uid = annotations_df.index[idx];
\* targets = annotations_df[target_labels].iloc[idx].values
FirstSample(obj, i) ==
    [BlankSample EXCEPT
       !.uid = obj.annotations_df[i].uid,
       !.targets = [k \in 1..Len(obj.target_labels) |->
                      obj.annotations_df[i].labels[obj.target_labels[k]]]]

\* LengthOf returning the number of selected labels
LengthOfLabels(obj) == Len(obj.target_labels)

\* __len__: return len(self.annotations_df)
LengthOf(obj) == Len(obj.annotations_df)

\* no len() call has returned since the last get call
NoLen == -1

\* SlotOf with one sample dictionary kept on the object and used by every call
SlotOfShared(w) == 1

\* sample = {'uid': uid, 'targets': targets} is a local variable of the call:
\* the call of worker w keeps its sample dictionary in a place of its own
SlotOf(w) == w

\* a second worker that is not inside a get call; met tells whether its
\* last call took a step while a call of the first worker was in flight
IdleWorker ==
    [pc |-> "idle", idx |-> 0, pos |-> 0, sample |-> BlankSample,
     met |-> FALSE, ret |-> NoCall]

\* no entry point of run.py is running
NoRun == [stage |-> "none"]

\* no function is applied on its own
NoPure == [stage |-> "none"]

\* no function of loops.py is running
NoLoop == [pc |-> "none"]

Init ==
    /\ \E in \in Inputs : args = in[1] /\ backend = in[2]
    /\ self = NoObject
    /\ pc = "new"
    /\ idx = 0
    /\ sample = BlankSample
    /\ pos = 0
    /\ trace = <<>>
    /\ draws = <<>>
    /\ sigOut = BlankSample
    /\ ret = NoCall
    /\ prev = NoCall
    /\ calls = 0
    /\ lenRet = NoLen
    /\ w2 = IdleWorker
    /\ run = NoRun
    /\ pure = NoPure
    /\ loop = NoLoop

\* AudioDataset(...): __init__ returns an object or raises
Construct ==
    /\ pc = "new"
    /\ IF InitError(args) = "none"
       THEN /\ self' = NewObject(args)
            /\ pc' = "idle"
            /\ ret' = ret
       ELSE /\ self' = NoObject
            /\ pc' = "failed"
            /\ ret' = [NoCall EXCEPT !.err = InitError(args)]
    /\ UNCHANGED <<args, backend, idx, sample, pos, trace, draws, sigOut,
                   prev, calls, lenRet, other>>

\* GetItem that narrows self.annotations_df to the selected columns
GetItemNarrowsTable(i) ==
    /\ pc = "idle"
    /\ idx' = i
    /\ sample' = FirstSample(self, i)
    /\ pc' = "audio"
    /\ pos' = 1
    /\ trace' = <<>>
    /\ draws' = <<>>
    /\ sigOut' = BlankSample
    /\ prev' \in {prev, ret}
    /\ ret' = NoCall
    /\ calls' = 0
    /\ lenRet' = NoLen
    /\ self' = [self EXCEPT !.annotations_df =
                  [r \in DOMAIN @ |->
                     [uid |-> @[r].uid,
                      labels |-> [c \in {self.target_labels[k] :
                                            k \in 1..Len(self.target_labels)}
                                    |-> @[r].labels[c]]]]]
    /\ UNCHANGED <<args, backend, other>>

\* dataset[i] is called; prev keeps one of the calls completed before, for
\* comparison with the calls that follow
GetItem(i) ==
    /\ pc = "idle"
    /\ idx' = i
    /\ sample' = FirstSample(self, i)
    /\ pc' = "audio"
    /\ pos' = 1
    /\ trace' = <<>>
    /\ draws' = <<>>
    /\ sigOut' = BlankSample
    /\ prev' \in {prev, ret}
    /\ ret' = NoCall
    /\ calls' = 0
    /\ lenRet' = NoLen
    /\ UNCHANGED <<args, backend, self, other>>

\* Raise with the exception caught and the sample so far returned
RaiseSwallowed(e) ==
    /\ pc' = "idle"
    /\ ret' = [idx |-> idx, err |-> "none", sample |-> sample,
               draws |-> draws]
    /\ calls' = calls + 1
    /\ UNCHANGED <<sample, pos, trace, draws, sigOut>>

\* an exception leaves __getitem__
Raise(e) ==
    /\ pc' = "idle"
    /\ ret' = [idx |-> idx, err |-> e, sample |-> BlankSample,
               draws |-> draws]
    /\ calls' = calls + 1
    /\ UNCHANGED <<sample, pos, trace, draws, sigOut>>

\* the chain of the current phase moves on past stage number pos
Advance(chain) ==
    IF pos = Len(chain)
    THEN pc' = NextPhase(pc, self.al_transform) /\ pos' = 1
    ELSE pc' = pc /\ pos' = pos + 1

\* self.audio_transform(sample), one stage at a time
AudioStage ==
    /\ pc = "audio"
    /\ LET st == self.audio_transform[pos]
           o == SignalOutcome(st, sample, backend)
       IN IF o.err # "none"
          THEN Raise(o.err)
          ELSE /\ sample' = o.s
               /\ trace' = Append(trace, st.name)
               /\ sigOut' = IF pos = Len(self.audio_transform) THEN o.s
                            ELSE sigOut
               /\ Advance(self.audio_transform)
               /\ calls' = calls + 1
               /\ UNCHANGED <<draws, ret>>
    /\ UNCHANGED <<args, backend, self, idx, prev, lenRet, other>>

\* self.al_transform(sample), one stage at a time; a list is not callable
AugStage ==
    /\ pc = "aug"
    /\ IF self.al_transform = <<>>
       THEN Raise("TypeError")
       ELSE LET st == self.al_transform[pos] IN
            \E o \in AugOutcomes(st, sample) :
               /\ sample' = o.s
               /\ trace' = Append(trace, st.name)
               /\ draws' = Append(draws, <<st.name, o.fire>>)
               /\ Advance(self.al_transform)
               /\ calls' = calls + 1
               /\ UNCHANGED <<sigOut, ret>>
    /\ UNCHANGED <<args, backend, self, idx, prev, lenRet, other>>

\* self.spec_transform(sample), one stage at a time
SpecStage ==
    /\ pc = "spec"
    /\ LET st == self.spec_transform[pos] IN
       \E s \in SpecOutcomes(st, sample) :
          /\ sample' = s
          /\ trace' = Append(trace, st.name)
          /\ Advance(self.spec_transform)
    /\ calls' = calls + 1
    /\ UNCHANGED <<args, backend, self, idx, draws, sigOut, ret, prev,
                   lenRet, other>>

\* return sample
Return ==
    /\ pc = "return"
    /\ pc' = "idle"
    /\ ret' = [idx |-> idx, err |-> "none", sample |-> sample,
               draws |-> draws]
    /\ UNCHANGED <<args, backend, self, idx, sample, pos, trace, draws,
                   sigOut, prev, calls, lenRet, other>>

\* len(dataset) is called between two get calls
Length ==
    /\ pc = "idle"
    /\ lenRet' = LengthOf(self)
    /\ UNCHANGED <<args, backend, self, pc, idx, sample, pos, trace, draws,
                   sigOut, ret, prev, calls, other>>

Next ==
    \/ Construct
    \/ \E i \in 1..NumRows : GetItem(i)
    \/ AudioStage
    \/ AugStage
    \/ SpecStage
    \/ Return
    \/ Length

Spec == Init /\ [][Next]_vars

(***************************************************************************)
(* two workers calling __getitem__ on one dataset                          *)
(***************************************************************************)
\* the constructor arguments and backends explored with two workers
WorkerInputs ==
    {<<MkArgs(c, l, FALSE, FALSE), BaseBackend>> :
        c \in BaseConfs, l \in LabelChoices}
    \cup {<<MkArgs(c, <<"a">>, FALSE, FALSE),
            [BaseBackend EXCEPT ![1] = f]>> :
            c \in BaseConfs,
            f \in {[found |-> FALSE, ch |-> 0, len |-> 0, sr |-> 0,
                     silent |-> FALSE],
                   [found |-> TRUE, ch |-> 2, len |-> 0, sr |-> 2,
                     silent |-> FALSE]}}

InitWorkers ==
    /\ \E in \in WorkerInputs : args = in[1] /\ backend = in[2]
    /\ self = NoObject
    /\ pc = "new"
    /\ idx = 0
    /\ sample = BlankSample
    /\ pos = 0
    /\ trace = <<>>
    /\ draws = <<>>
    /\ sigOut = BlankSample
    /\ ret = NoCall
    /\ prev = NoCall
    /\ calls = 0
    /\ lenRet = NoLen
    /\ w2 = IdleWorker
    /\ run = NoRun
    /\ pure = NoPure
    /\ loop = NoLoop

\* the stage list __getitem__ applies in one phase
ChainOf(obj, phase) ==
    IF phase = "audio" THEN obj.audio_transform
    ELSE IF phase = "aug" THEN obj.al_transform
    ELSE obj.spec_transform

\* what one stage of a phase can make of a sample
StageOutcomes(phase, st, s, be) ==
    IF phase = "audio" THEN {SignalOutcome(st, s, be)}
    ELSE IF phase = "aug" THEN {Ok(o.s) : o \in AugOutcomes(st, s)}
    ELSE {Ok(x) : x \in SpecOutcomes(st, s)}

\* the sample dictionary the call of the second worker works on
W2Sample == IF SlotOf(2) = 1 THEN sample ELSE w2.sample

\* the second worker stores s in its sample dictionary and becomes w
W2Store(s, w) ==
    IF SlotOf(2) = 1
    THEN sample' = s /\ w2' = w
    ELSE sample' = sample /\ w2' = [w EXCEPT !.sample = s]

InFlight == pc \in {"audio", "aug", "spec", "return"}

\* the second worker calls dataset[i]
W2GetItem(i) ==
    /\ self.constructed
    /\ w2.pc = "idle"
    /\ W2Store(FirstSample(self, i),
               [w2 EXCEPT !.pc = "audio", !.idx = i, !.pos = 1,
                          !.met = FALSE, !.ret = NoCall])
    /\ UNCHANGED <<args, backend, self, pc, idx, pos, trace, draws, sigOut,
                   ret, prev, calls, lenRet, run, pure, loop>>

\* the second worker's call applies its next stage
W2Stage ==
    /\ w2.pc \in {"audio", "aug", "spec"}
    /\ LET chain == ChainOf(self, w2.pc)
           st == chain[w2.pos]
           last == w2.pos = Len(chain)
       IN \E o \in StageOutcomes(w2.pc, st, W2Sample, backend) :
            IF o.err # "none"
            THEN /\ w2' = [w2 EXCEPT !.pc = "idle",
                                     !.ret = [idx |-> w2.idx, err |-> o.err,
                                              sample |-> BlankSample,
                                              draws |-> <<>>]]
                 /\ sample' = sample
            ELSE W2Store(o.s,
                    [w2 EXCEPT
                       !.pc = IF last THEN NextPhase(w2.pc, self.al_transform)
                              ELSE w2.pc,
                       !.pos = IF last THEN 1 ELSE w2.pos + 1,
                       !.met = w2.met \/ InFlight])
    /\ UNCHANGED <<args, backend, self, pc, idx, pos, trace, draws, sigOut,
                   ret, prev, calls, lenRet, run, pure, loop>>

\* the second worker's call returns its sample
W2Return ==
    /\ w2.pc = "return"
    /\ w2' = [w2 EXCEPT !.pc = "idle",
                        !.ret = [idx |-> w2.idx, err |-> "none",
                                 sample |-> W2Sample, draws |-> <<>>]]
    /\ UNCHANGED <<args, backend, self, pc, idx, sample, pos, trace, draws,
                   sigOut, ret, prev, calls, lenRet, run, pure, loop>>

NextWorkers ==
    \/ Construct
    \/ \E i \in 1..NumRows : GetItem(i)
    \/ AudioStage
    \/ AugStage
    \/ SpecStage
    \/ Return
    \/ \E i \in 1..NumRows : W2GetItem(i)
    \/ W2Stage
    \/ W2Return

SpecWorkers == InitWorkers /\ [][NextWorkers]_vars

(***************************************************************************)
(* run.py: main and the three entry points                                 *)
(***************************************************************************)
\* the variables of one dataset and its calls, which run.py's steps up to
\* the construction of the data loaders leave alone
datasetVars ==
    <<args, backend, self, pc, idx, sample, pos, trace, draws, sigOut, ret,
      prev, calls, lenRet>>

\* the argparse defaults of main (lines 340-375), in the units of the model
BaseCli ==
    [mode |-> "extraction", resample_rate |-> 4, reduce |-> TRUE,
     clip_length |-> 1, tshift |-> 0, speed |-> 0, gauss |-> 0, pshift |-> 0,
     pshiftn |-> 0, gain |-> 0, stretch |-> 0, num_mel_bins |-> 3,
     target_length |-> 2, freqm |-> 0, timem |-> 0, mixup |-> 0,
     noise |-> FALSE, dataset_mean |-> 0, dataset_std |-> 0,
     batch_size |-> 8]

CliModeGroup == [mode : {"train", "eval", "extraction"}]

CliAugGroup ==
    [tshift : {0, 100}, speed : {0, 50}, gauss : {0, 100}, pshift : {0, 100},
     pshiftn : {1}, gain : {0, 100}, stretch : {0, 100}]

CliSpecGroup ==
    [freqm : {0, 1}, timem : {0, 1}, noise : BOOLEAN, mixup : {0, 50},
     dataset_mean : {0, 1}, dataset_std : {0, 2}]

CliSigGroup ==
    [resample_rate : {2, 4}, reduce : BOOLEAN, clip_length : {0, 1},
     batch_size : {1, 8}]

\* the command lines explored: every mode with one group of options given
CliArgs ==
    {Merge(Merge(BaseCli, m), g) :
        m \in CliModeGroup,
        g \in CliAugGroup \cup CliSpecGroup \cup CliSigGroup}

\* setup_mdl_args: the arguments saved with the model that is loaded
ModelArgs ==
    {Merge(BaseCli, g) :
        g \in [tshift : {0, 100}, freqm : {0, 1}, noise : BOOLEAN,
               clip_length : {0, 1}, num_mel_bins : {3, 4}]}

\* the keys the audio configurations of run.py do not hold
RunAbsent == {"mode", "dataset", "skip_norm"}

\* train_audio_conf (lines 57-60)
TrainAudioConf(a) ==
    [absent |-> RunAbsent,
     resample_rate |-> a.resample_rate, reduce |-> a.reduce,
     clip_length |-> a.clip_length,
     tshift |-> a.tshift, speed |-> a.speed, gauss_noise |-> a.gauss,
     pshift |-> a.pshift, pshiftn |-> a.pshiftn, gain |-> a.gain,
     stretch |-> a.stretch,
     num_mel_bins |-> a.num_mel_bins, target_length |-> a.target_length,
     freqm |-> a.freqm, timem |-> a.timem, mixup |-> a.mixup,
     noise |-> a.noise,
     mean |-> a.dataset_mean, std |-> a.dataset_std, skip_norm |-> FALSE]

\* EvalAudioConf with the two mask widths taken from the arguments
EvalAudioConfKeepsMasks(a) ==
    [TrainAudioConf(a) EXCEPT
       !.tshift = 0, !.speed = 0, !.gauss_noise = 0, !.pshift = 0,
       !.pshiftn = 0, !.gain = 0, !.stretch = 0, !.mixup = 0,
       !.noise = FALSE]

\* eval_audio_conf of train_ssast (lines 63-66)
EvalAudioConf(a) ==
    [absent |-> RunAbsent,
     resample_rate |-> a.resample_rate, reduce |-> a.reduce,
     clip_length |-> a.clip_length,
     tshift |-> 0, speed |-> 0, gauss_noise |-> 0, pshift |-> 0,
     pshiftn |-> 0, gain |-> 0, stretch |-> 0,
     num_mel_bins |-> a.num_mel_bins, target_length |-> a.target_length,
     freqm |-> 0, timem |-> 0, mixup |-> 0, noise |-> FALSE,
     mean |-> a.dataset_mean, std |-> a.dataset_std, skip_norm |-> FALSE]

\* eval_audio_conf of eval_only (lines 192-195): all of it from model_args
EvalOnlyAudioConf(m) ==
    [absent |-> RunAbsent,
     resample_rate |-> m.resample_rate, reduce |-> m.reduce,
     clip_length |-> m.clip_length,
     tshift |-> 0, speed |-> 0, gauss_noise |-> 0, pshift |-> 0,
     pshiftn |-> 0, gain |-> 0, stretch |-> 0,
     num_mel_bins |-> m.num_mel_bins, target_length |-> m.target_length,
     freqm |-> 0, timem |-> 0, mixup |-> 0, noise |-> FALSE,
     mean |-> m.dataset_mean, std |-> m.dataset_std, skip_norm |-> FALSE]

\* audio_conf of get_embeddings (lines 260-263): the signal options from
\* args, the feature size and the statistics from model_args
EmbeddingAudioConf(a, m) ==
    [absent |-> RunAbsent,
     resample_rate |-> a.resample_rate, reduce |-> a.reduce,
     clip_length |-> a.clip_length,
     tshift |-> 0, speed |-> 0, gauss_noise |-> 0, pshift |-> 0,
     pshiftn |-> 0, gain |-> 0, stretch |-> 0,
     num_mel_bins |-> m.num_mel_bins, target_length |-> m.target_length,
     freqm |-> 0, timem |-> 0, mixup |-> 0, noise |-> FALSE,
     mean |-> m.dataset_mean, std |-> m.dataset_std, skip_norm |-> FALSE]

\* AudioDataset(annotations_df=..., target_labels=..., audio_conf=conf, ...)
\* as run.py calls it: the dataset's two configurable chains
DatasetOf(role, conf) ==
    LET f == Fields(MkArgs(conf, <<"a">>, FALSE, FALSE)) IN
    [role |-> role, audio_conf |-> conf,
     al_transform |-> AlTransformList(f),
     spec_transform |-> SpecTransformList(f)]

InitRun ==
    /\ args = MkArgs(EvalConf, <<"a">>, FALSE, FALSE)
    /\ backend = BaseBackend
    /\ self = NoObject
    /\ pc = "new"
    /\ idx = 0
    /\ sample = BlankSample
    /\ pos = 0
    /\ trace = <<>>
    /\ draws = <<>>
    /\ sigOut = BlankSample
    /\ ret = NoCall
    /\ prev = NoCall
    /\ calls = 0
    /\ lenRet = NoLen
    /\ w2 = IdleWorker
    /\ pure = NoPure
    /\ loop = NoLoop
    /\ \E a \in CliArgs :
          run = [stage |-> "main", args |-> a, requested |-> a.batch_size,
                 datasets |-> <<>>, loader_batch |-> 0]

\* BatchSizeAfterChecks with a handler that leaves the batch size alone
BatchSizeAfterChecksKept(a) == a.batch_size

\* if args.clip_length == 0: try: assert args.batch_size == 1
\*                           except: args.batch_size = 1
BatchSizeAfterChecks(a) == IF a.clip_length = 0 THEN 1 ELSE a.batch_size

\* main, step (6): without truncation the batch size becomes 1
MainChecks ==
    /\ run.stage = "main"
    /\ run' = [run EXCEPT
                 !.stage = "dispatch",
                 !.args = [@ EXCEPT !.batch_size =
                             BatchSizeAfterChecks(run.args)]]
    /\ UNCHANGED <<datasetVars, w2, pure, loop>>

\* main, step (10), mode train: train_ssast steps (2) to (4)
TrainSsast ==
    /\ run.stage = "dispatch"
    /\ run.args.mode = "train"
    /\ run' = [run EXCEPT
                 !.stage = "loaded",
                 !.datasets =
                    <<DatasetOf("train", TrainAudioConf(run.args)),
                      DatasetOf("val", EvalAudioConf(run.args)),
                      DatasetOf("test", EvalAudioConf(run.args))>>,
                 !.loader_batch = run.args.batch_size]
    /\ UNCHANGED <<datasetVars, w2, pure, loop>>

\* main, step (10), mode eval: eval_only steps (2) to (4)
EvalOnly ==
    /\ run.stage = "dispatch"
    /\ run.args.mode = "eval"
    /\ \E m \in ModelArgs :
         run' = [run EXCEPT
                   !.stage = "loaded",
                   !.datasets = <<DatasetOf("eval", EvalOnlyAudioConf(m))>>,
                   !.loader_batch = run.args.batch_size]
    /\ UNCHANGED <<datasetVars, w2, pure, loop>>

\* main, step (10), mode extraction: get_embeddings steps (2) and (3)
GetEmbeddings ==
    /\ run.stage = "dispatch"
    /\ run.args.mode = "extraction"
    /\ \E m \in ModelArgs :
         run' = [run EXCEPT
                   !.stage = "loaded",
                   !.datasets =
                      <<DatasetOf("embed", EmbeddingAudioConf(run.args, m))>>,
                   !.loader_batch = run.args.batch_size]
    /\ UNCHANGED <<datasetVars, w2, pure, loop>>

NextRun ==
    \/ MainChecks
    \/ TrainSsast
    \/ EvalOnly
    \/ GetEmbeddings

SpecRun == InitRun /\ [][NextRun]_vars

(***************************************************************************)
(* the channel sum and the normalization, applied to sample values         *)
(***************************************************************************)
\* most channels and most samples per channel of the waveforms explored
MaxCh == 3
MaxSamples == 2

SampleValues == {-1, 1}

\* a waveform of shape (channels, samples): a sequence of channels
Waveforms ==
    UNION {[1..c -> [1..n -> SampleValues]] :
             c \in 1..MaxCh, n \in 1..MaxSamples}

RECURSIVE SumTo(_, _)
\* f[1] + ... + f[k]
SumTo(f, k) == IF k = 0 THEN 0 ELSE f[k] + SumTo(f, k - 1)

\* torch.sum(w, axis = 0): shape (samples,)
AxisSum0(w) ==
    [k \in 1..Len(w[1]) |-> SumTo([c \in 1..Len(w) |-> w[c][k]], Len(w))]

\* ChannelSum that keeps the first channel only
ChannelFirst(w) == <<w[1]>>

\* ChannelSum with the sum taken along the sample axis
ChannelSumOverSamples(w) ==
    <<[c \in 1..Len(w) |-> SumTo(w[c], Len(w[c]))]>>

\* channel_sum = lambda w: torch.sum(w, axis = 0).unsqueeze(0)
ChannelSum(w) == <<AxisSum0(w)>>

\* the outputs of the conversion stage explored: target_length frames of
\* num_mel_bins values
RawFeatures ==
    {[i \in 1..EvalConf.target_length |->
        [j \in 1..EvalConf.num_mel_bins |-> a * i + b * j]] :
        a \in {-1, 0, 1}, b \in {0, 2}}

\* the normalization and masking options explored with them
NormGroup ==
    [mean : {0, 1}, std : {1, 2}, skip_norm : BOOLEAN,
     absent : {{}, {"skip_norm"}}, freqm : {0, 1}, noise : BOOLEAN]

\* a feature value, kept as a fraction
Frac(x) == [num |-> x, den |-> 1]

\* Normalize(mean, std): (x - mean) / std on every value
NormalizeValues(fm, m, d) ==
    [i \in DOMAIN fm |->
       [j \in DOMAIN fm[i] |->
          [num |-> fm[i][j].num - m * fm[i][j].den,
           den |-> fm[i][j].den * d]]]

\* one stage after the conversion, on the values of the feature; a mask or
\* the noise leaves values that the input no longer determines
FeatureStageValues(st, x) ==
    IF st.name = "Normalize"
    THEN [x EXCEPT !.vals = NormalizeValues(x.vals, st.a, st.b)]
    ELSE [x EXCEPT !.exact = FALSE]

RECURSIVE ApplyFeatureStages(_, _, _)
\* the stages k, k + 1, ... of the chain, front to back
ApplyFeatureStages(chain, k, x) ==
    IF k > Len(chain) THEN x
    ELSE ApplyFeatureStages(chain, k + 1, FeatureStageValues(chain[k], x))

NoFeature == [vals |-> <<>>, exact |-> TRUE]

InitPure ==
    /\ args = MkArgs(EvalConf, <<"a">>, FALSE, FALSE)
    /\ backend = BaseBackend
    /\ self = NoObject
    /\ pc = "new"
    /\ idx = 0
    /\ sample = BlankSample
    /\ pos = 0
    /\ trace = <<>>
    /\ draws = <<>>
    /\ sigOut = BlankSample
    /\ ret = NoCall
    /\ prev = NoCall
    /\ calls = 0
    /\ lenRet = NoLen
    /\ w2 = IdleWorker
    /\ run = NoRun
    /\ loop = NoLoop
    /\ \/ \E w \in Waveforms :
            pure = [stage |-> "wave", w |-> w, out |-> <<>>, out2 |-> <<>>,
                    conf |-> EvalConf, raw |-> <<>>, feat |-> NoFeature]
       \/ \E raw \in RawFeatures, g \in NormGroup :
            pure = [stage |-> "feature", w |-> <<>>, out |-> <<>>,
                    out2 |-> <<>>, conf |-> Merge(EvalConf, g), raw |-> raw,
                    feat |-> NoFeature]

\* ToMonophonic(reduce_fn = channel_sum) on a loaded waveform
Reduce ==
    /\ pure.stage = "wave"
    /\ pure' = [pure EXCEPT !.stage = "reduced", !.out = ChannelSum(pure.w)]
    /\ UNCHANGED <<datasetVars, w2, run, loop>>

\* the same stage on the waveform it produced
ReduceAgain ==
    /\ pure.stage = "reduced"
    /\ pure' = [pure EXCEPT !.stage = "reduced2",
                            !.out2 = ChannelSum(pure.out)]
    /\ UNCHANGED <<datasetVars, w2, run, loop>>

\* the stages _getspectransform puts after the conversion, on its output
FeatureChain ==
    /\ pure.stage = "feature"
    /\ LET f == Fields(MkArgs(pure.conf, <<"a">>, FALSE, FALSE))
           raw == [i \in DOMAIN pure.raw |->
                     [j \in DOMAIN pure.raw[i] |-> Frac(pure.raw[i][j])]]
       IN pure' = [pure EXCEPT
                     !.stage = "returned",
                     !.feat = ApplyFeatureStages(SpecTransformList(f), 2,
                                 [vals |-> raw, exact |-> TRUE])]
    /\ UNCHANGED <<datasetVars, w2, run, loop>>

NextPure ==
    \/ Reduce
    \/ ReduceAgain
    \/ FeatureChain

SpecPure == InitPure /\ [][NextPure]_vars

(***************************************************************************)
(* loops.py: pretrain, finetune, their validation passes, calc_auc         *)
(***************************************************************************)
\* most epochs, and most batches a data loader yields
MaxEpochs == 11
MaxBatches == 2
\* most rows of the predictions handed to calc_auc
MaxAucRows == 3

\* if e % 10 == 0: logs, validation and checkpoints (lines 106, 273)
LogEvery == 10

LossChoices == {"MSE", "BCE", "CE"}
OptimChoices == {"adam", "adamw", "sgd"}

\* no batch has been processed
NoBatch == [kind |-> "none", mode |-> "none", grad |-> TRUE, e |-> -1]

\* the calls of pretrain and finetune explored; the model comes in either
\* mode, gradients are enabled
LoopCalls ==
    [fn : {"pretrain", "finetune"}, pc : {"start"}, loss_fn : LossChoices,
     optim : OptimChoices, has_val : BOOLEAN, epochs : 1..MaxEpochs,
     nb : 1..MaxBatches, nv : 1..MaxBatches, e : {0}, b : {0},
     mode : {"train", "eval"}, grad : {TRUE}, err : {"none"}, steps : {0},
     files : {0}, passes : {0}, last : {NoBatch}]

\* the target matrices explored: a row holds the values of two labels
AucTargets ==
    UNION {[1..n -> [1..2 -> {"0", "1", "NaN"}]] : n \in 1..MaxAucRows}

\* the calls of calc_auc explored: row i of preds is the prediction for
\* row i of targets
AucCalls ==
    {[fn |-> "calc_auc", pc |-> "auc", targets |-> t,
      preds |-> [i \in 1..Len(t) |-> i],
      pred_mat |-> <<>>, target_mat |-> <<>>] : t \in AucTargets}

InitLoops ==
    /\ args = MkArgs(EvalConf, <<"a">>, FALSE, FALSE)
    /\ backend = BaseBackend
    /\ self = NoObject
    /\ pc = "new"
    /\ idx = 0
    /\ sample = BlankSample
    /\ pos = 0
    /\ trace = <<>>
    /\ draws = <<>>
    /\ sigOut = BlankSample
    /\ ret = NoCall
    /\ prev = NoCall
    /\ calls = 0
    /\ lenRet = NoLen
    /\ w2 = IdleWorker
    /\ run = NoRun
    /\ pure = NoPure
    /\ loop \in LoopCalls \cup AucCalls

\* SetupError that takes the loss names the command line offers
SetupErrorLossOfCli(fn, loss_fn, optim) ==
    IF fn = "finetune" /\ loss_fn \notin {"BCE", "CE"} THEN "ValueError"
    ELSE IF optim \notin {"adam", "adamw"} THEN "ValueError"
    ELSE "none"

\* finetune lines 234-247: the loss, then the optimizer; pretrain lines
\* 55-60: the optimizer only
SetupError(fn, loss_fn, optim) ==
    IF fn = "finetune" /\ loss_fn \notin {"MSE", "BCE"} THEN "ValueError"
    ELSE IF optim \notin {"adam", "adamw"} THEN "ValueError"
    ELSE "none"

\* the statements before the epoch loop
LoopSetup ==
    /\ loop.pc = "start"
    /\ LET err == SetupError(loop.fn, loop.loss_fn, loop.optim) IN
       loop' = IF err # "none"
               THEN [loop EXCEPT !.pc = "raised", !.err = err]
               ELSE [loop EXCEPT !.pc = "epoch"]
    /\ UNCHANGED <<datasetVars, w2, run, pure>>

\* ModeAtEpochStart with model.train() called before the loop only
ModeAtEpochStartOnce(e, mode) == IF e = 0 THEN "train" ELSE mode

\* model.train() is the first call of every epoch (lines 72, 258)
ModeAtEpochStart(e, mode) == "train"

\* for e in range(epochs): the next epoch begins, or the function returns
EpochStart ==
    /\ loop.pc = "epoch"
    /\ loop' = IF loop.e = loop.epochs
               THEN [loop EXCEPT !.pc = "returned"]
               ELSE [loop EXCEPT !.pc = "train", !.b = 0,
                                 !.mode = ModeAtEpochStart(loop.e, loop.mode)]
    /\ UNCHANGED <<datasetVars, w2, run, pure>>

\* one batch of dataloader_train: forward, backward, optimizer.step()
TrainBatch ==
    /\ loop.pc = "train"
    /\ loop.b < loop.nb
    /\ loop' = [loop EXCEPT
                  !.b = @ + 1, !.steps = @ + 1,
                  !.last = [kind |-> "train", mode |-> loop.mode,
                            grad |-> loop.grad, e |-> loop.e]]
    /\ UNCHANGED <<datasetVars, w2, run, pure>>

\* after the last batch: every LogEvery epochs the logs, with a validation
\* pass if there is a validation loader; otherwise the next epoch
TrainDone ==
    /\ loop.pc = "train"
    /\ loop.b = loop.nb
    /\ loop' = IF loop.e % LogEvery # 0
               THEN [loop EXCEPT !.pc = "epoch", !.e = @ + 1]
               ELSE IF loop.has_val
               THEN [loop EXCEPT !.pc = "val", !.b = 0, !.grad = FALSE,
                                 !.mode = "eval", !.passes = @ + 1]
               ELSE [loop EXCEPT !.pc = "save"]
    /\ UNCHANGED <<datasetVars, w2, run, pure>>

\* one batch of dataloader_val inside with torch.no_grad(), after
\* model.eval() (validation_mask lines 184-186, validation 335-337)
ValBatch ==
    /\ loop.pc = "val"
    /\ loop.b < loop.nv
    /\ loop' = [loop EXCEPT
                  !.b = @ + 1,
                  !.last = [kind |-> "val", mode |-> loop.mode,
                            grad |-> loop.grad, e |-> loop.e]]
    /\ UNCHANGED <<datasetVars, w2, run, pure>>

\* the validation function returns: the no_grad block is left
ValDone ==
    /\ loop.pc = "val"
    /\ loop.b = loop.nv
    /\ loop' = [loop EXCEPT !.pc = "save", !.grad = TRUE]
    /\ UNCHANGED <<datasetVars, w2, run, pure>>

\* the logs, the model and the optimizer are written; the epoch ends
SaveEpoch ==
    /\ loop.pc = "save"
    /\ loop' = [loop EXCEPT !.pc = "epoch", !.e = @ + 1, !.files = @ + 3]
    /\ UNCHANGED <<datasetVars, w2, run, pure>>

\* targets.isnan().sum(1) == 0
NoNanRows(t) ==
    [i \in 1..Len(t) |-> \A j \in DOMAIN t[i] : t[i][j] # "NaN"]

\* x[mask]: the rows of x the mask selects, in order
RECURSIVE MaskedFrom(_, _, _)
MaskedFrom(x, mask, k) ==
    IF k > Len(x) THEN <<>>
    ELSE (IF mask[k] THEN <<x[k]>> ELSE <<>>) \o MaskedFrom(x, mask, k + 1)

\* line 430, targets[targets.isnan().sum(1)==0], is an expression whose
\* value is not assigned: targets stays as it was
TargetsAfterLine430(t) == t

\* calc_auc up to the call of roc_auc_score(target_mat, pred_mat); a row of
\* target_mat is kept with its row number
CalcAuc ==
    /\ loop.pc = "auc"
    /\ LET preds == MaskedFrom(loop.preds, NoNanRows(loop.targets), 1)
           targets == TargetsAfterLine430(loop.targets)
       IN loop' = [loop EXCEPT
                     !.pc = "scored",
                     !.pred_mat = preds,
                     !.target_mat = [i \in 1..Len(targets) |->
                                       [row |-> i, t |-> targets[i]]]]
    /\ UNCHANGED <<datasetVars, w2, run, pure>>

NextLoops ==
    \/ LoopSetup
    \/ EpochStart
    \/ TrainBatch
    \/ TrainDone
    \/ ValBatch
    \/ ValDone
    \/ SaveEpoch
    \/ CalcAuc

SpecLoops == InitLoops /\ [][NextLoops]_vars

(***************************************************************************)
(* Properties                                                              *)
(***************************************************************************)
Names(chain) == [k \in 1..Len(chain) |-> chain[k].name]

Elems(seq) == {seq[k] : k \in 1..Len(seq)}

AllStages == SignalOrder \o AugOrder \o SpecOrder

\* the place of each stage in the documented order, and its chain
StageRank ==
    [n \in Elems(AllStages) |->
        CHOOSE k \in 1..Len(AllStages) : AllStages[k] = n]

StagePhase ==
    [n \in Elems(AllStages) |->
        IF StageRank[n] <= Len(SignalOrder) THEN 1
        ELSE IF StageRank[n] <= Len(SignalOrder) + Len(AugOrder) THEN 2
        ELSE 3]

PhaseOf(name) == StagePhase[name]

SignalNames == Elems(SignalOrder)
AugNames == Elems(AugOrder)
SpecNames == Elems(SpecOrder)

\* the members of seq that belong to the set names appear in the documented
\* order, each at most once
InOrder(seq, names) ==
    LET sub == SelectSeq(seq, LAMBDA x : x \in names) IN
    \A i \in 1..(Len(sub) - 1) : StageRank[sub[i]] < StageRank[sub[i + 1]]

CountPhase(ph) == Cardinality({k \in 1..Len(trace) : PhaseOf(trace[k]) = ph})

\* the configuration key holding the probability of an augmentation stage
AugKey(name) ==
    IF name = "TimeShifting" THEN "tshift"
    ELSE IF name = "SpeedTuning" THEN "speed"
    ELSE IF name = "AddGaussianNoise" THEN "gauss_noise"
    ELSE IF name = "PitchShift" THEN "pshift"
    ELSE IF name = "Gain" THEN "gain"
    ELSE "stretch"

AugConfigured == \E n \in AugNames : args.audio_conf[AugKey(n)] # 0

\* a configuration __init__ accepts as far as everything but the
\* augmentation probabilities is concerned
RestValid ==
    /\ ~IsNone(args.audio_conf, "mode")
    /\ ~IsNone(args.audio_conf, "dataset")
    /\ SkipNorm(args.audio_conf)
          \/ (~IsNone(args.audio_conf, "mean")
              /\ ~IsNone(args.audio_conf, "std"))
    /\ ~args.cdo
    /\ ~args.shift

\* C1: in every get call the stages run phase by phase, signal chain, then
\* augmentation chain, then spectrogram chain; a phase starts only when the
\* previous one has run all its stages; the augmentation step is entered
\* exactly when some augmentation probability is configured nonzero.
C1_ChainsInOrder ==
    /\ \A i \in 1..(Len(trace) - 1) :
          PhaseOf(trace[i]) <= PhaseOf(trace[i + 1])
    /\ (pc \in {"aug", "spec", "return"} \/ CountPhase(2) + CountPhase(3) > 0)
          => CountPhase(1) = Len(self.audio_transform)
    /\ (pc \in {"spec", "return"} \/ CountPhase(3) > 0)
          => /\ CountPhase(2) = Len(self.al_transform)
             /\ AugConfigured <=> CountPhase(2) > 0
    /\ pc = "return" => CountPhase(3) = Len(self.spec_transform)
    /\ ~AugConfigured => pc # "aug" /\ CountPhase(2) = 0 /\ draws = <<>>
    /\ ret.err \in {"none", "nocall", "NotFoundError", "EmptyAudioError"}
          \/ pc = "failed"

C1_Witness ==
    /\ pc = "return"
    /\ AugConfigured
    /\ CountPhase(1) > 0 /\ CountPhase(2) > 0 /\ CountPhase(3) > 0

\* C2: from the conversion stage on, through every later spectrogram stage
\* and in the returned record, the feature has shape
\* (target_length, num_mel_bins); its frames are the first frames of the
\* waveform, followed by zero frames when the waveform is shorter.
C2_FixedShape ==
    /\ sample.has_fbank =>
          /\ Shape(sample.fbank)
                = <<args.audio_conf.target_length, args.audio_conf.num_mel_bins>>
          /\ \A i \in 1..Len(sample.fbank.rows) :
                sample.fbank.rows[i]
                   = IF i <= sample.waveform.len THEN "data" ELSE "zero"
    /\ ret.err = "none" =>
          /\ ret.sample.has_fbank
          /\ Shape(ret.sample.fbank)
                = <<args.audio_conf.target_length, args.audio_conf.num_mel_bins>>
    /\ pc \in {"return"} \/ (pc = "spec" /\ pos > 1) => sample.has_fbank

C2_Witness ==
    /\ ret.err = "none"
    /\ ret.sample.waveform.len < args.audio_conf.target_length
    /\ ret.sample.fbank.rows[args.audio_conf.target_length] = "zero"
    /\ "Normalize" \in Elems(ret.sample.fbank.ops)
    /\ prev.err = "none"
    /\ prev.sample.waveform.len > args.audio_conf.target_length

\* C3: the signal stages that run in a get call run in the order loading,
\* channel reduction, resampling, truncation, tensor conversion, mean
\* centering, each at most once; loading is first and, once the chain has
\* finished, mean centering is last.
C3_SignalOrder ==
    /\ InOrder(trace, SignalNames)
    /\ self.constructed => InOrder(Names(self.audio_transform), SignalNames)
    /\ Len(trace) > 0 => trace[1] = "UidToWaveform"
    /\ pc \in {"aug", "spec", "return"} =>
          trace[CountPhase(1)] = "WaveMean"

C3_Witness ==
    /\ pc = "return"
    /\ {"ToMonophonic", "Resample", "Truncate"} \subseteq Elems(trace)

\* C4: in the constructed signal chain, channel reduction is present
\* exactly when reduce is set, resampling exactly when resample_rate is not
\* 0, truncation exactly when clip_length is not 0; loading, tensor
\* conversion and mean centering are always present.
C4_SignalPresence ==
    self.constructed =>
       LET names == Elems(Names(self.audio_transform)) IN
       /\ "ToMonophonic" \in names <=> args.audio_conf.reduce
       /\ "Resample" \in names <=> args.audio_conf.resample_rate # 0
       /\ "Truncate" \in names <=> args.audio_conf.clip_length # 0
       /\ {"UidToWaveform", "ToTensor", "WaveMean"} \subseteq names
       /\ Cardinality(names) = Len(self.audio_transform)

C4_Witness ==
    /\ self.constructed
    /\ ~args.audio_conf.reduce
    /\ args.audio_conf.resample_rate = 0
    /\ args.audio_conf.clip_length # 0
    /\ "Truncate" \in Elems(Names(self.audio_transform))

\* C5: whatever the six augmentation probabilities are (the rest of the
\* configuration being acceptable), construction succeeds and the
\* augmentation chain holds exactly the stages whose probability is nonzero.
C5_AugConstruction ==
    (pc # "new" /\ RestValid) =>
       /\ self.constructed
       /\ Elems(Names(self.al_transform))
             = {n \in AugNames : args.audio_conf[AugKey(n)] # 0}

\* C6: the augmentation stages applied in a get call are applied in the
\* order time shift, speed tuning, gaussian noise, pitch shift, gain,
\* stretch, and the waveform is altered in that order.
C6_AugOrder ==
    /\ InOrder(trace, AugNames)
    /\ InOrder(sample.waveform.mods, AugNames)
    /\ InOrder([k \in 1..Len(draws) |-> draws[k][1]], AugNames)
    /\ self.constructed => InOrder(Names(self.al_transform), AugNames)

C6_Witness ==
    /\ pc = "return"
    /\ sample.waveform.mods
          = <<"TimeShifting", "SpeedTuning", "AddGaussianNoise", "Gain",
              "StretchAudio">>

AllAugOff == ~AugConfigured

\* C7: with all six probabilities 0 the dataset is constructed with an empty
\* augmentation set, the augmentation step is never entered, get raises
\* nothing because of the empty set, and the spectrogram chain receives the
\* output of the signal chain unchanged.
C7_EmptyAugPassThrough ==
    AllAugOff =>
       /\ (pc # "new" /\ RestValid) =>
             self.constructed /\ self.al_transform = <<>>
       /\ pc # "aug"
       /\ ret.err # "TypeError" \/ pc = "failed"
       /\ pc \in {"spec", "return"} =>
             /\ sigOut.has_waveform
             /\ sample.waveform = sigOut.waveform
             /\ sample.sample_rate = sigOut.sample_rate
       /\ (pc = "spec" /\ pos = 1) => sample = sigOut

C7_Witness ==
    /\ AllAugOff
    /\ pc = "spec" /\ pos = 1
    /\ sample = sigOut
    /\ sample.has_waveform
    /\ prev.err = "none"

Fired(d) == {d[k][1] : k \in {j \in 1..Len(d) : d[j][2]}}

\* C8: no firing decision exists before the first get call; every get call
\* that gets through the augmentation chain has drawn exactly one decision
\* of its own for each stage of the chain; the waveform is altered by
\* exactly the stages that fired; a stage with probability 1 fired, a stage
\* with probability 0 did not.
C8_PerCallDecision ==
    /\ (pc \in {"new", "failed"} \/ (pc = "idle" /\ ret = NoCall))
          => draws = <<>>
    /\ pc \in {"spec", "return"} =>
          /\ [k \in 1..Len(draws) |-> draws[k][1]] = Names(self.al_transform)
          /\ \A n \in AugNames :
                /\ args.audio_conf[AugKey(n)] = 100 => n \in Fired(draws)
                /\ args.audio_conf[AugKey(n)] = 0 => n \notin Fired(draws)
    /\ Elems(sample.waveform.mods) = Fired(draws)
          \/ ~sample.has_waveform
    /\ ret.err = "none" => Elems(ret.sample.waveform.mods) = Fired(ret.draws)

C8_Witness ==
    /\ pc = "idle"
    /\ prev.err = "none" /\ ret.err = "none"
    /\ prev.idx = ret.idx
    /\ "Gain" \in Fired(prev.draws) /\ "Gain" \notin Fired(ret.draws)
    /\ "TimeShifting" \in Fired(prev.draws) \cap Fired(ret.draws)
    /\ ret.sample.waveform # prev.sample.waveform

\* C9: the spectrogram stages that run in a get call start with the
\* conversion and run in the order conversion, frequency masking, time
\* masking, normalization, noise; the feature is masked before it is
\* normalized and noise is added after normalization.
C9_SpecOrder ==
    /\ InOrder(trace, SpecNames)
    /\ CountPhase(3) > 0 =>
          trace[CountPhase(1) + CountPhase(2) + 1] = "Wav2Fbank"
    /\ self.constructed =>
          /\ InOrder(Names(self.spec_transform), SpecNames)
          /\ self.spec_transform[1].name = "Wav2Fbank"
    /\ InOrder(sample.fbank.ops, SpecNames)
    /\ "Noise" \in Elems(sample.fbank.ops) /\ ~self.skip_norm
          => sample.fbank.norm # <<>>

C9_Witness ==
    /\ pc = "return"
    /\ sample.fbank.ops = <<"FreqMask", "TimeMask", "Normalize", "Noise">>

\* C10: in the constructed spectrogram chain, frequency masking is present
\* exactly when freqm is not 0, time masking exactly when timem is not 0,
\* noise exactly when noise is set, and normalization unless the
\* configuration holds skip_norm = True.
C10_SpecPresence ==
    self.constructed =>
       LET names == Elems(Names(self.spec_transform))
           c == args.audio_conf
       IN /\ "Wav2Fbank" \in names
          /\ "FreqMask" \in names <=> c.freqm # 0
          /\ "TimeMask" \in names <=> c.timem # 0
          /\ "Noise" \in names <=> c.noise
          /\ "Normalize" \in names
                <=> ~("skip_norm" \notin c.absent /\ c.skip_norm)
          /\ Cardinality(names) = Len(self.spec_transform)

C10_Witness ==
    /\ self.constructed
    /\ IsNone(args.audio_conf, "skip_norm")
    /\ "Normalize" \in Elems(Names(self.spec_transform))
    /\ "FreqMask" \notin Elems(Names(self.spec_transform))
    /\ "Noise" \in Elems(Names(self.spec_transform))

\* C11: every len() call returns the number of rows of the annotation
\* table given to the constructor, whatever get calls came before it, the
\* failed ones included.
C11_LengthIsRowCount ==
    /\ lenRet # NoLen => lenRet = Len(args.annotations_df)
    /\ self.constructed => LengthOf(self) = Len(args.annotations_df)

C11_Witness ==
    /\ lenRet = Len(args.annotations_df)
    /\ ret.err = "NotFoundError"
    /\ prev.err = "none"

\* C13: once the dataset is constructed no step changes the object: the
\* annotation table, the selected labels, the configuration and the three
\* stage lists stay what the constructor made of its arguments.
C13_ObjectFrozen ==
    [][/\ self.constructed => self' = self
       /\ args' = args
       /\ self'.constructed =>
             /\ self'.annotations_df = args.annotations_df
             /\ self'.target_labels = args.target_labels
             /\ self'.audio_conf = args.audio_conf
             /\ self'.audio_transform = AudioTransformList(Fields(args))
             /\ self'.al_transform = AlTransformList(Fields(args))
             /\ self'.spec_transform = SpecTransformList(Fields(args))]_vars

C13_Witness ==
    /\ self.constructed
    /\ pc = "idle"
    /\ ret.err = "none" /\ prev.err = "none"
    /\ lenRet # NoLen
    /\ Len(self.target_labels) < 2

\* C14: a get call whose stage fails ends at that stage with that stage's
\* error and without a record: every stage is invoked at most once, the
\* stages after the failing one are not invoked, and a call returns a
\* record only if no stage failed.
C14_ErrorsPropagate ==
    /\ pc \in {"audio", "aug", "spec", "return"} => calls = Len(trace)
    /\ (pc = "idle" /\ ret.idx # 0) =>
          LET file == backend[args.annotations_df[ret.idx].uid] IN
          /\ ~file.found =>
                ret.err = "NotFoundError" /\ trace = <<>> /\ calls = 1
          /\ (file.found /\ file.len = 0) =>
                /\ ret.err = "EmptyAudioError"
                /\ trace = <<"UidToWaveform">>
                /\ calls = 2
          /\ ret.err # "none" =>
                /\ ret.err \in {"NotFoundError", "EmptyAudioError"}
                /\ ret.sample = BlankSample
                /\ calls = Len(trace) + 1
          /\ ret.err = "none" =>
                /\ file.found /\ file.len > 0
                /\ calls = Len(trace)
                /\ ret.sample.has_fbank

C14_Witness ==
    /\ pc = "idle"
    /\ ret.err = "EmptyAudioError"
    /\ calls = 2
    /\ trace = <<"UidToWaveform">>
    /\ prev.err = "none"

\* C15: a record returned by get holds the identifier, the feature, the
\* sample rate and the targets, and does not hold the waveform.
C15_NoWaveformInRecord ==
    ret.err = "none" =>
       /\ ret.sample.uid # 0
       /\ ret.sample.has_fbank
       /\ ret.sample.sample_rate # 0
       /\ Len(ret.sample.targets) = Len(args.target_labels)
       /\ ~ret.sample.has_waveform

RowTargets(i) ==
    [k \in 1..Len(args.target_labels) |->
        args.annotations_df[i].labels[args.target_labels[k]]]

\* C16: during a get call and in the record it returns, the identifier is
\* that of row idx and the targets are row idx's values in the selected
\* columns, in the order of the selection, a missing value staying NaN.
C16_UidAndTargets ==
    /\ pc \in {"audio", "aug", "spec", "return"} =>
          /\ sample.uid = args.annotations_df[idx].uid
          /\ sample.targets = RowTargets(idx)
    /\ ret.err = "none" =>
          /\ ret.sample.uid = args.annotations_df[ret.idx].uid
          /\ ret.sample.targets = RowTargets(ret.idx)
          /\ Len(ret.sample.targets) = Len(args.target_labels)

C16_Witness ==
    /\ ret.err = "none"
    /\ ret.idx = 1
    /\ args.target_labels = <<"b", "a">>
    /\ ret.sample.targets = <<"NaN", "1">>

\* a configuration without any random stage and without normalization
Deterministic ==
    LET c == args.audio_conf IN
    /\ ~IsNone(c, "skip_norm") /\ c.skip_norm
    /\ ~AugConfigured
    /\ c.freqm = 0 /\ c.timem = 0 /\ ~c.noise
    /\ ~args.cdo /\ ~args.shift

\* C18: under a deterministic configuration with skip_norm set, a get call
\* returns the same feature as any earlier get call on the same index.
C18_RepeatableFeature ==
    (Deterministic /\ prev.err = "none" /\ ret.err = "none"
       /\ prev.idx = ret.idx)
       => prev.sample.fbank = ret.sample.fbank

C18_Witness ==
    /\ Deterministic
    /\ prev.err = "none" /\ ret.err = "none"
    /\ prev.idx = ret.idx
    /\ ret.sample.has_fbank
    /\ prev.sample.fbank = ret.sample.fbank

\* normalization is requested and the mean or the std is not supplied
NormWithoutStats ==
    LET c == args.audio_conf IN
    /\ ~(~IsNone(c, "skip_norm") /\ c.skip_norm)
    /\ IsNone(c, "mean") \/ IsNone(c, "std")

\* C19 as stated: such a construction is rejected with a ConfigurationError.
C19_ConfigurationError ==
    (pc # "new" /\ NormWithoutStats) =>
       pc = "failed" /\ ret.err = "ConfigurationError"

\* C19 amended: such a construction is rejected by the constructor with a
\* TypeError, so that no dataset exists and no get call is made.
C19_RejectedWithTypeError ==
    (pc # "new" /\ NormWithoutStats) =>
       /\ pc = "failed"
       /\ ret.err = "TypeError"
       /\ ~self.constructed
       /\ ret.idx = 0 /\ trace = <<>>

C19_Witness ==
    /\ pc = "failed"
    /\ NormWithoutStats
    /\ ~IsNone(args.audio_conf, "mode")
    /\ ~IsNone(args.audio_conf, "dataset")
    /\ ret.err = "TypeError"

\* the sample rate and the length of the waveform the truncation receives
RateInForce ==
    IF args.audio_conf.resample_rate # 0 THEN args.audio_conf.resample_rate
    ELSE backend[sample.uid].sr

LengthBeforeClip ==
    LET file == backend[sample.uid]
        rate == args.audio_conf.resample_rate
    IN IF rate # 0 /\ rate # file.sr THEN (file.len * rate) \div file.sr
       ELSE file.len

JustTruncated == Len(trace) > 0 /\ trace[Len(trace)] = "Truncate"

\* C20: right after the truncation stage the waveform has
\* min(length before, clip_length * sample rate) samples, the sample rate
\* being the one in force after resampling: never more than before, never
\* more than clip_length * sample rate, unchanged when it was shorter.
C20_Truncation ==
    JustTruncated =>
       LET limit == args.audio_conf.clip_length * RateInForce IN
       /\ sample.sample_rate = RateInForce
       /\ sample.waveform.len = Min(LengthBeforeClip, limit)
       /\ sample.waveform.len <= LengthBeforeClip
       /\ sample.waveform.len <= limit
       /\ LengthBeforeClip <= limit => sample.waveform.len = LengthBeforeClip

C20_Witness ==
    /\ JustTruncated
    /\ backend[sample.uid].sr # RateInForce
    /\ sample.waveform.len < LengthBeforeClip
    /\ sample.waveform.len = args.audio_conf.clip_length * RateInForce

\* the results a get call can return when it runs alone, from the point
\* where it is about to apply stage p of a phase to the sample s
RECURSIVE AloneFrom(_, _, _, _, _)
AloneFrom(obj, be, phase, p, s) ==
    IF phase = "return" THEN {[err |-> "none", sample |-> s]}
    ELSE LET chain == ChainOf(obj, phase)
             last == p = Len(chain)
         IN UNION {IF o.err # "none"
                   THEN {[err |-> o.err, sample |-> BlankSample]}
                   ELSE AloneFrom(obj, be,
                           IF last THEN NextPhase(phase, obj.al_transform)
                           ELSE phase,
                           IF last THEN 1 ELSE p + 1, o.s) :
                   o \in StageOutcomes(phase, chain[p], s, be)}

AloneResults ==
    [in \in WorkerInputs |->
       [i \in 1..NumRows |->
          AloneFrom(NewObject(in[1]), in[2], "audio", 1,
                    [BlankSample EXCEPT
                       !.uid = in[1].annotations_df[i].uid,
                       !.targets =
                          [k \in 1..Len(in[1].target_labels) |->
                             in[1].annotations_df[i].labels[
                                in[1].target_labels[k]]]])]]

AsIfAlone(r) ==
    r.idx # 0 =>
       [err |-> r.err, sample |-> r.sample]
          \in AloneResults[<<args, backend>>][r.idx]

\* C12: whatever the interleaving of the get calls of two workers, each
\* call returns a result it could have returned running alone on its index,
\* a call in flight holds the identifier of its own index, and the object
\* holds nothing a call has written.
C12_CallsIndependent ==
    /\ pc = "idle" => AsIfAlone(ret)
    /\ AsIfAlone(w2.ret)
    /\ InFlight => sample.uid = args.annotations_df[idx].uid
    /\ self.constructed => self = NewObject(args)

C12_Witness ==
    /\ pc = "idle" /\ w2.pc = "idle"
    /\ ret.err = "none" /\ w2.ret.err = "none"
    /\ ret.idx # w2.ret.idx
    /\ w2.met
    /\ ret.sample.uid # w2.ret.sample.uid

\* C17: every dataset the entry points build for validation, test,
\* evaluation or embedding extraction has a configuration with the six
\* augmentation probabilities 0, freqm and timem 0 and noise false, an
\* empty augmentation chain and a spectrogram chain without masks or
\* noise, whatever the training arguments and the model's arguments are.
C17_EvalConfsNoStochastic ==
    \A k \in 1..Len(run.datasets) :
       LET d == run.datasets[k]
           c == d.audio_conf
       IN d.role # "train" =>
             /\ c.tshift = 0 /\ c.speed = 0 /\ c.gauss_noise = 0
             /\ c.pshift = 0 /\ c.gain = 0 /\ c.stretch = 0
             /\ c.freqm = 0 /\ c.timem = 0 /\ ~c.noise
             /\ d.al_transform = <<>>
             /\ \A j \in 1..Len(d.spec_transform) :
                   d.spec_transform[j].name \in {"Wav2Fbank", "Normalize"}

C17_Witness ==
    /\ run.stage = "loaded"
    /\ run.args.mode = "train"
    /\ run.args.tshift # 0
    /\ Len(run.datasets) = 3
    /\ run.datasets[1].al_transform # <<>>
    /\ run.datasets[2].role = "val"
    /\ run.datasets[2].al_transform = <<>>
    /\ run.datasets[3].role = "test"

\* C23: the sample rate of a returned record is resample_rate when that
\* is not 0 and the rate of the loaded file when it is 0.
C23_RecordSampleRate ==
    ret.err = "none" =>
       LET rate == args.audio_conf.resample_rate IN
       ret.sample.sample_rate =
          IF rate # 0 THEN rate ELSE backend[ret.sample.uid].sr

C23_Witness ==
    /\ ret.err = "none"
    /\ backend[ret.sample.uid].sr = 2
    /\ args.audio_conf.resample_rate = 4
    /\ ret.sample.sample_rate = 4
    /\ prev.err = "none"
    /\ backend[prev.sample.uid].sr = 4

\* the rest of the configuration lets the constructor through
PlainConf ==
    /\ ~IsNone(args.audio_conf, "mode")
    /\ ~IsNone(args.audio_conf, "dataset")
    /\ ~NormWithoutStats
    /\ args.audio_conf.pshift = 0

\* C24: a construction that asks for coarse dropout or affine shift
\* succeeds, the dataset holds the transforms asked for and no others, and
\* only the conversion stage of the spectrogram chain is given them.
C24_MaskTransformsAccepted ==
    (pc # "new" /\ PlainConf) =>
       /\ self.constructed
       /\ self.has_tf_co = args.cdo
       /\ self.has_tf_shift = args.shift
       /\ self.spec_transform[1].name = "Wav2Fbank"

\* the waveform a get call loaded
FileOf(r) == backend[args.annotations_df[r.idx].uid]

\* the resampler is in the chain and changes the rate of the file
Resamples(file) ==
    /\ args.audio_conf.resample_rate # 0
    /\ args.audio_conf.resample_rate # file.sr

\* some signal stage of the call receives a waveform of length 0
MeetsEmptyWaveform(file) ==
    \/ file.len = 0
    \/ /\ Resamples(file)
       /\ (file.len * args.audio_conf.resample_rate) \div file.sr = 0

EmptyAudioExactly ==
    (pc = "idle" /\ ret.idx # 0 /\ FileOf(ret).found) =>
       /\ ret.err = "EmptyAudioError" <=> MeetsEmptyWaveform(FileOf(ret))
       /\ ret.err = "EmptyAudioError" =>
             /\ sample.waveform.len = 0
             /\ Len(trace) < Len(self.audio_transform)

\* C25 as stated: a get call fails with EmptyAudioError exactly when a
\* signal stage receives a waveform of length 0, and a silent waveform of
\* positive length leaves the signal chain with its length unchanged and
\* without EmptyAudioError whenever clip_length is 0.
C25_SilentUnchanged ==
    /\ EmptyAudioExactly
    /\ (pc = "idle" /\ ret.idx # 0 /\ FileOf(ret).silent
          /\ args.audio_conf.clip_length = 0) =>
          /\ ret.err = "none"
          /\ sigOut.waveform.len = FileOf(ret).len

\* C25 amended: the same, for a silent waveform that is not resampled.
C25_SilentUnchangedUnlessResampled ==
    /\ EmptyAudioExactly
    /\ (pc = "idle" /\ ret.idx # 0 /\ FileOf(ret).silent
          /\ args.audio_conf.clip_length = 0
          /\ ~Resamples(FileOf(ret))) =>
          /\ ret.err = "none"
          /\ sigOut.waveform.len = FileOf(ret).len
          /\ sigOut.waveform.silent

C25_Witness ==
    /\ pc = "idle"
    /\ ret.err = "none"
    /\ FileOf(ret).silent
    /\ FileOf(ret).len > 1
    /\ args.audio_conf.clip_length = 0
    /\ sigOut.waveform.len = FileOf(ret).len
    /\ args.audio_conf.resample_rate = FileOf(ret).sr
    /\ prev.err = "none"

C21_ChannelSum ==
    pure.stage \in {"reduced", "reduced2"} =>
       /\ Len(pure.out) = 1
       /\ Len(pure.out[1]) = Len(pure.w[1])
       /\ \A k \in 1..Len(pure.w[1]) :
             pure.out[1][k] =
                SumTo([c \in 1..Len(pure.w) |-> pure.w[c][k]], Len(pure.w))

C21_Witness ==
    /\ pure.stage = "reduced"
    /\ Len(pure.w) = MaxCh
    /\ Len(pure.w[1]) = MaxSamples
    /\ pure.out[1] # pure.w[1]
    /\ pure.out[1][1] # pure.out[1][2]

\* C22: reducing a reduced waveform returns it unchanged, and reducing a
\* mono waveform returns that waveform.
C22_ReduceIdempotent ==
    /\ pure.stage = "reduced2" => pure.out2 = pure.out
    /\ (pure.stage \in {"reduced", "reduced2"} /\ Len(pure.w) = 1) =>
          pure.out = pure.w

C22_Witness ==
    /\ pure.stage = "reduced2"
    /\ Len(pure.w) > 1
    /\ pure.out # <<pure.w[1]>>
    /\ pure.out2 = pure.out

\* skip_norm is given and true
SkipsNorm(c) == ~IsNone(c, "skip_norm") /\ c.skip_norm

\* C26: without masks and noise the returned feature is, value by value,
\* (raw - mean) / std of the conversion's output when normalization is
\* active, and the conversion's output itself when skip_norm is true.
C26_NormalizedFeature ==
    (pure.stage = "returned" /\ pure.conf.freqm = 0 /\ pure.conf.timem = 0
       /\ ~pure.conf.noise) =>
       /\ pure.feat.exact
       /\ DOMAIN pure.feat.vals = DOMAIN pure.raw
       /\ \A i \in DOMAIN pure.raw :
             /\ DOMAIN pure.feat.vals[i] = DOMAIN pure.raw[i]
             /\ \A j \in DOMAIN pure.raw[i] :
                   LET v == pure.feat.vals[i][j] IN
                   IF SkipsNorm(pure.conf)
                   THEN v = Frac(pure.raw[i][j])
                   ELSE /\ v.den # 0
                        /\ v.num * pure.conf.std =
                              (pure.raw[i][j] - pure.conf.mean) * v.den

C26_Witness ==
    /\ pure.stage = "returned"
    /\ pure.conf.freqm = 0 /\ ~pure.conf.noise
    /\ ~SkipsNorm(pure.conf)
    /\ pure.conf.mean = 1 /\ pure.conf.std = 2
    /\ pure.raw[1][1] = 3
    /\ pure.feat.vals[1][1] = [num |-> 2, den |-> 2]

InLoop ==
    loop.pc \in {"start", "raised", "epoch", "train", "val", "save",
                 "returned"}

\* C28: finetune raises ValueError exactly when the loss is not MSE or BCE
\* or the optimizer is not adam or adamw, and it raises before any batch
\* is processed, any optimizer step is taken or any file is written.
C28_FinetuneRejects ==
    (InLoop /\ loop.fn = "finetune" /\ loop.pc # "start") =>
       LET supported == /\ loop.loss_fn \in {"MSE", "BCE"}
                        /\ loop.optim \in {"adam", "adamw"}
       IN /\ loop.pc = "raised" <=> ~supported
          /\ loop.pc = "raised" =>
                /\ loop.err = "ValueError"
                /\ loop.last = NoBatch
                /\ loop.steps = 0
                /\ loop.files = 0
                /\ loop.passes = 0
          /\ loop.pc # "raised" => loop.err = "none"

C28_Witness ==
    /\ InLoop /\ loop.fn = "finetune"
    /\ loop.pc = "raised"
    /\ loop.loss_fn = "CE"
    /\ loop.optim = "adamw"

\* C29: every training batch is processed in training mode (with gradients
\* enabled), every validation batch in evaluation mode with gradients
\* disabled; so the batches of the epoch after a validation pass are
\* processed in training mode again.
C29_ModesPerBatch ==
    InLoop =>
       /\ loop.last.kind = "train" =>
             loop.last.mode = "train" /\ loop.last.grad
       /\ loop.last.kind = "val" =>
             loop.last.mode = "eval" /\ ~loop.last.grad
       /\ (loop.pc = "train" /\ loop.b < loop.nb) =>
             loop.mode = "train" /\ loop.grad
       /\ (loop.pc = "val" /\ loop.b < loop.nv) =>
             loop.mode = "eval" /\ ~loop.grad

C29_Witness ==
    /\ InLoop
    /\ loop.last.kind = "train"
    /\ loop.last.e = 1
    /\ loop.passes = 1
    /\ loop.last.mode = "train"

\* C30: the predictions and the targets handed to the AUC computation
\* are the rows without NaN in their targets, the same rows in the same
\* order in both.
C30_SameRowsToAuc ==
    loop.pc = "scored" =>
       LET kept == MaskedFrom([i \in 1..Len(loop.targets) |-> i],
                              NoNanRows(loop.targets), 1)
       IN /\ loop.pred_mat = kept
          /\ [i \in 1..Len(loop.target_mat) |-> loop.target_mat[i].row] = kept
          /\ \A i \in 1..Len(loop.target_mat) :
                \A j \in DOMAIN loop.target_mat[i].t :
                   loop.target_mat[i].t[j] # "NaN"

====
